---- MODULE Spec2Model ----
(***************************************************************************)
(* The run/queue module of CNC Server (src/src/cncserver.queue.js): the    *)
(* command buffer (cncserver.buffer), its pause/resume control, the        *)
(* enqueue entry point cncserver.run, the renderer and the trigger path.   *)
(* Spec runs it for a device that declares every command template,        *)
(* SpecGap for a device that declares none.                                *)
(* SpecStale adds an executor whose completion report can cross clear().  *)
(*                                                                         *)
(* JavaScript objects are modelled on a heap: a pen state object is a      *)
(* reference into heap, so that a copy (util._extend) and an alias are     *)
(* different things.  JavaScript values carry their typeof in field t.     *)
(* Strings are sequences of tokens; '' is the empty sequence.              *)
(***************************************************************************)
EXTENDS Integers, Sequences, FiniteSets, TLC

\* Largest number of entries of buffer.data the model explores.
MaxQueue == 2

VARIABLES
    data,       \* buffer.data: array of hashes, index 1 is the array's front
    dataSet,    \* buffer.dataSet: hash -> item {command, duration, pen}
    running,    \* buffer.running
    paused,     \* buffer.paused
    pen,        \* cncserver.pen: reference of the intended pen state object
    actualPen,  \* cncserver.actualPen: reference of the confirmed pen state
    heap,       \* reference -> pen state object
    bot,        \* cncserver.bot.commands and gConf flipZToggleBit
    last,       \* the last call: its name, arguments, result, removed item
    sent,       \* what the last call sent out, in order
    enqueued,   \* history: content of the pending items as enqueued, oldest first
    stale       \* a completion report for an item clear() removed is on its way

vars == <<data, dataSet, running, paused, pen, actualPen, heap, bot, last,
          sent, enqueued, stale>>

-----------------------------------------------------------------------------
(* JavaScript values *)

Undefined == [t |-> "undefined"]
Str(toks) == [t |-> "string", v |-> toks]
Obj(r) == [t |-> "object", v |-> r]
Fn(name) == [t |-> "function", v |-> name]
Arr(elems) == [t |-> "array", v |-> elems]
\* A number with one decimal digit: (-1)^neg * (whole + tenths/10).
Num(neg, whole, tenths) ==
    [t |-> "number", neg |-> neg, whole |-> whole, tenths |-> tenths]

\* typeof x
TypeOf(x) == x.t

\* !x for undefined and for numbers
Falsy(x) ==
    \/ TypeOf(x) = "undefined"
    \/ TypeOf(x) = "number" /\ x.whole = 0 /\ x.tenths = 0

\* parseInt(x) of a number: the integer its decimal notation starts with
ParseInt(x) == IF x.neg THEN 0 - x.whole ELSE x.whole

\* Math.abs
Abs(n) == IF n < 0 THEN 0 - n ELSE n

EmptyMap == [h \in {} |-> Undefined]

-----------------------------------------------------------------------------
(* The inputs the model draws from *)

\* Pen state objects: position and the state string read at line 158.
PenValues ==
    { [x |-> 0, y |-> 0, state |-> "up"],
      [x |-> 10, y |-> 20, state |-> "draw"] }

InitialPen == [x |-> 0, y |-> 0, state |-> "up"]

\* Device profiles: the command templates of cncserver.bot.commands and the
\* flipZToggleBit setting.
FullProfile ==
    [commands |-> [n \in {"movexy", "movez", "togglez", "wait"} |->
                      CASE n = "movexy" -> <<"XM,", "%x", ",", "%y">>
                        [] n = "movez" -> <<"SP,", "%z">>
                        [] n = "togglez" -> <<"SC,", "%t">>
                        [] n = "wait" -> <<"SM,", "%d", ",0,0">>],
     flipZToggleBit |-> TRUE]

EmptyProfile == [commands |-> EmptyMap, flipZToggleBit |-> FALSE]

\* The command kinds cncserver.run supports (its switch, lines 147-182).
Supported ==
    {"move", "height", "message", "callbackname", "wait", "custom", "callback"}

\* The command argument of cncserver.run, supported or not.
Commands == Supported \cup {"bogus"}

\* The data argument of cncserver.run for each command kind.
DataOf(command) ==
    CASE command = "move" ->
           Obj([x |-> 10, y |-> 20, source |-> [x |-> 0, y |-> 0]])
      [] command = "height" -> Obj([z |-> 5, source |-> 0])
      [] command = "message" -> Str(<<"hello">>)
      [] command = "callbackname" -> Str(<<"drawcomplete">>)
      [] command = "custom" -> Str(<<"EM,0,0">>)
      [] command = "callback" -> Fn("cb1")
      [] OTHER -> Undefined

\* The duration argument of cncserver.run: missing, 0, -0.5, -2, 1.5.
DurationArgs ==
    { Undefined, Num(FALSE, 0, 0), Num(TRUE, 0, 5), Num(TRUE, 2, 0),
      Num(FALSE, 1, 5) }

\* The calls of cncserver.run: every command kind without a duration, and
\* message with every duration argument.
Requests ==
    {[command |-> c, duration |-> Undefined] : c \in Commands}
    \cup {[command |-> c, duration |-> d] :
             c \in {"message"}, d \in DurationArgs}

-----------------------------------------------------------------------------
(* cncserver.buffer.cmdstr, lines 290-300 *)

\* out.replace('%' + v, values[v]): the first occurrence only, the value
\* coerced to a string.
ReplaceFirst(out, key, value) ==
    LET at == {i \in 1..Len(out) : out[i] = "%" \o key}
    IN  IF at = {} THEN out
        ELSE LET i == CHOOSE j \in at : \A k \in at : j <= k
             IN  [out EXCEPT ![i] = ToString(value)]

\* for (var v in values) out = out.replace(...); values is the sequence of
\* the object's <<key, value>> pairs in insertion order.
RECURSIVE ReplaceEach(_, _)
ReplaceEach(out, values) ==
    IF values = <<>> THEN out
    ELSE ReplaceEach(ReplaceFirst(out, values[1][1], values[1][2]),
                     Tail(values))

\* A template the profile lacks renders as '' where a plausible slip leaves
\* the placeholder name in the output.
cmdstrNoSanity(name, values) ==
    IF name \notin DOMAIN bot.commands THEN Str(<<name>>)
    ELSE Str(ReplaceEach(bot.commands[name], values))

cmdstr(name, values) ==
    IF name \notin DOMAIN bot.commands THEN Str(<<>>)
    ELSE Str(ReplaceEach(bot.commands[name], values))

-----------------------------------------------------------------------------
(* cncserver.utils, called by render and addItem *)

\* utils.getPosChangeData(source, dest): the positional delta.
getPosChangeData(source, dest) ==
    <<<<"x", dest.x - source.x>>, <<"y", dest.y - source.y>>>>

\* utils.getHeightChangeData(source, z): the settle duration of the delta.
getHeightChangeData(source, z) == [d |-> Abs(z - source)]

\* The content of an item: its pen reference replaced by the pen's fields.
ItemContent(item, h) ==
    [command |-> item.command, duration |-> item.duration,
     pen |-> h[item.pen]]

\* utils.getHash(item): an identifier derived from the item's content only.
getHash(item, h) == ItemContent(item, h)

-----------------------------------------------------------------------------
(* cncserver.buffer.render, lines 208-247 *)

render(item) ==
    IF TypeOf(item.command) = "object"
    THEN LET c == item.command.v
         IN  CASE c.type = "absmove" ->
                    Arr(<<cmdstr("movexy", getPosChangeData(c.source, c))>>)
               [] c.type = "absheight" ->
                    LET hChange == getHeightChangeData(c.source, c.z)
                        movez == <<cmdstr("movez", <<<<"z", c.z>>>>)>>
                        togglez ==
                            IF "togglez" \in DOMAIN bot.commands
                            THEN <<cmdstr("togglez",
                                     <<<<"t", IF bot.flipZToggleBit
                                              THEN 1 ELSE 0>>>>)>>
                            ELSE <<>>
                        wait == <<cmdstr("wait", <<<<"d", hChange.d>>>>)>>
                    IN  Arr(movez \o togglez \o wait)
               [] OTHER -> Str(<<>>)
    ELSE Arr(<<item.command>>)

-----------------------------------------------------------------------------
(* What a call sends out *)

Ev(to, type, body) == [to |-> to, type |-> type, body |-> body]
IpcMessage(type, body) == Ev("ipc", type, body)
Io(type, body) == Ev("io", type, body)
Console(type) == Ev("console", type, Undefined)
Call(fn, arg) == Ev("call", fn, arg)

(* cncserver.buffer.trigger, lines 258-275: the events it causes *)
trigger(item) ==
    IF TypeOf(item.command) = "function"
    THEN <<Call(item.command.v, 1)>>
    ELSE IF TypeOf(item.command) = "object"
         THEN CASE item.command.v.type = "message" ->
                     <<Io("sendMessageUpdate", item.command.v.message)>>
                [] item.command.v.type = "callbackname" ->
                     <<Io("sendCallbackUpdate", item.command.v.name)>>
                [] OTHER -> <<>>
         ELSE <<>>

-----------------------------------------------------------------------------
(* The objects the module holds: the two pen states and the buffer *)

\* The state the operations below work on, as one record.
Store ==
    [heap |-> heap, pen |-> pen, actualPen |-> actualPen, data |-> data,
     dataSet |-> dataSet]

\* A reference no object of h has.
NewRef(h) ==
    CHOOSE r \in 1..(Cardinality(DOMAIN h) + 1) :
        /\ r \notin DOMAIN h
        /\ \A q \in 1..(Cardinality(DOMAIN h) + 1) : q \notin DOMAIN h => r <= q

\* extend({}, obj): a new object with obj's fields (the fields of a pen
\* state are primitive values).
Extend(h, ref) ==
    LET r == NewRef(h)
    IN  [ref |-> r, heap |-> [q \in DOMAIN h \cup {r} |->
                                 IF q = r THEN h[ref] ELSE h[q]]]

\* The references the program can still reach, in a fixed order.
Roots(st) ==
    <<st.pen, st.actualPen>> \o
    [i \in 1..Len(st.data) |->
        IF st.data[i] \in DOMAIN st.dataSet
        THEN st.dataSet[st.data[i]].pen ELSE st.pen]

Live(st) ==
    {st.pen, st.actualPen} \cup {st.dataSet[k].pen : k \in DOMAIN st.dataSet}

\* Object identity is abstract: unreachable objects are collected and, when
\* every item is reachable through data, the references are renamed in the
\* order of Roots.
Collect(st) ==
    LET roots == Roots(st)
        First(r) == CHOOSE i \in 1..Len(roots) :
                        roots[i] = r /\ \A j \in 1..(i - 1) : roots[j] # r
        Rank(r) == Cardinality({roots[j] : j \in 1..(First(r) - 1)}) + 1
        live == Live(st)
        ordered == \A k \in DOMAIN st.dataSet :
                       \E i \in 1..Len(st.data) : st.data[i] = k
    IN  IF ordered
        THEN [heap |-> [n \in 1..Cardinality(live) |->
                           st.heap[CHOOSE r \in live : Rank(r) = n]],
              pen |-> Rank(st.pen),
              actualPen |-> Rank(st.actualPen),
              data |-> st.data,
              dataSet |-> [k \in DOMAIN st.dataSet |->
                              [st.dataSet[k] EXCEPT
                                  !.pen = Rank(st.dataSet[k].pen)]]]
        ELSE [st EXCEPT !.heap = [r \in live |-> st.heap[r]]]

-----------------------------------------------------------------------------
(* cncserver.buffer.addItem, lines 59-72 *)

\* The add notification held back from the executor while paused.
addItemHeld(item, st) ==
    LET hash == getHash(item, st.heap)
    IN  [st |-> [st EXCEPT
                    !.data = <<hash>> \o st.data,
                    !.dataSet = [k \in DOMAIN st.dataSet \cup {hash} |->
                                    IF k = hash THEN item ELSE st.dataSet[k]]],
         sent |-> (IF paused THEN <<>>
                   ELSE << IpcMessage("buffer.add",
                                      [hash |-> hash, commands |-> render(item),
                                       duration |-> item.duration]) >>)
                  \o << Io("sendBufferAdd",
                           [item |-> ItemContent(item, st.heap),
                            hash |-> hash]) >>]

\* The observer told of the new item before the executor.
addItemObserverFirst(item, st) ==
    LET hash == getHash(item, st.heap)
    IN  [st |-> [st EXCEPT
                    !.data = <<hash>> \o st.data,
                    !.dataSet = [k \in DOMAIN st.dataSet \cup {hash} |->
                                    IF k = hash THEN item ELSE st.dataSet[k]]],
         sent |-> << Io("sendBufferAdd",
                        [item |-> ItemContent(item, st.heap), hash |-> hash]),
                     IpcMessage("buffer.add",
                                [hash |-> hash, commands |-> render(item),
                                 duration |-> item.duration]) >>]

addItem(item, st) ==
    LET hash == getHash(item, st.heap)
    IN  [st |-> [st EXCEPT
                    !.data = <<hash>> \o st.data,
                    !.dataSet = [k \in DOMAIN st.dataSet \cup {hash} |->
                                    IF k = hash THEN item ELSE st.dataSet[k]]],
         sent |-> << IpcMessage("buffer.add",
                                [hash |-> hash, commands |-> render(item),
                                 duration |-> item.duration]),
                     Io("sendBufferAdd",
                        [item |-> ItemContent(item, st.heap), hash |-> hash]) >>]

-----------------------------------------------------------------------------
(* cncserver.run, lines 140-193 *)

\* Line 144 without line 145.
ClampDurationNoFloor(duration) ==
    IF Falsy(duration) THEN 1 ELSE Abs(ParseInt(duration))

\* Lines 143-145: the duration the item is stored with.
ClampDuration(duration) ==
    LET d == IF Falsy(duration) THEN 1 ELSE Abs(ParseInt(duration))
    IN  IF d <= 0 THEN 1 ELSE d

\* The switch with every unknown command kind falling out of it with c = ''.
BuildCommandNoDefault(command, arg, duration, st) ==
    CASE command = "move" ->
           [ok |-> TRUE,
            c |-> Obj([type |-> "absmove", x |-> arg.v.x, y |-> arg.v.y,
                       source |-> arg.v.source])]
      [] command = "height" ->
           [ok |-> TRUE,
            c |-> Obj([type |-> "absheight", z |-> arg.v.z,
                       source |-> arg.v.source,
                       state |-> st.heap[st.pen].state])]
      [] command = "message" ->
           [ok |-> TRUE, c |-> Obj([type |-> "message", message |-> arg])]
      [] command = "callbackname" ->
           [ok |-> TRUE, c |-> Obj([type |-> "callbackname", name |-> arg])]
      [] command = "wait" ->
           IF "wait" \notin DOMAIN bot.commands
           THEN [ok |-> FALSE, c |-> Str(<<>>)]
           ELSE [ok |-> TRUE, c |-> cmdstr("wait", <<<<"d", duration>>>>)]
      [] command = "custom" -> [ok |-> TRUE, c |-> arg]
      [] command = "callback" -> [ok |-> TRUE, c |-> arg]
      [] OTHER -> [ok |-> TRUE, c |-> Str(<<>>)]

\* Lines 141-182: the command c of the item, or ok = FALSE where run
\* returns false.
BuildCommand(command, arg, duration, st) ==
    CASE command = "move" ->
           [ok |-> TRUE,
            c |-> Obj([type |-> "absmove", x |-> arg.v.x, y |-> arg.v.y,
                       source |-> arg.v.source])]
      [] command = "height" ->
           [ok |-> TRUE,
            c |-> Obj([type |-> "absheight", z |-> arg.v.z,
                       source |-> arg.v.source,
                       state |-> st.heap[st.pen].state])]
      [] command = "message" ->
           [ok |-> TRUE, c |-> Obj([type |-> "message", message |-> arg])]
      [] command = "callbackname" ->
           [ok |-> TRUE, c |-> Obj([type |-> "callbackname", name |-> arg])]
      [] command = "wait" ->
           IF "wait" \notin DOMAIN bot.commands
           THEN [ok |-> FALSE, c |-> Str(<<>>)]
           ELSE [ok |-> TRUE, c |-> cmdstr("wait", <<<<"d", duration>>>>)]
      [] command = "custom" -> [ok |-> TRUE, c |-> arg]
      [] command = "callback" -> [ok |-> TRUE, c |-> arg]
      [] OTHER -> [ok |-> FALSE, c |-> Str(<<>>)]

\* The item holding the live pen state object itself.
SnapshotPenAlias(st) == [ref |-> st.pen, heap |-> st.heap]

\* The item holding a copy of the confirmed pen state.
SnapshotPenConfirmed(st) == Extend(st.heap, st.actualPen)

\* Line 189: pen: extend({}, cncserver.pen)
SnapshotPen(st) == Extend(st.heap, st.pen)

run(command, arg, duration, st) ==
    LET d == ClampDuration(duration)
        b == BuildCommand(command, arg, d, st)
        snap == SnapshotPen(st)
        item == [command |-> b.c, duration |-> d, pen |-> snap.ref]
        added == addItem(item, [st EXCEPT !.heap = snap.heap])
    IN  IF b.ok
        THEN [st |-> added.st, sent |-> added.sent, ret |-> "true",
              item |-> ItemContent(item, snap.heap)]
        ELSE [st |-> st, sent |-> <<>>, ret |-> "false", item |-> Undefined]

-----------------------------------------------------------------------------
(* cncserver.buffer.removeItem, lines 78-101 *)

\* The confirmed state taken from the live intended state.
PenToConfirmLive(item, st) == st.pen

\* Line 86: the object actualPen is copied from.
PenToConfirm(item, st) == item.pen

\* The removal entered whatever data.pop() returned.
PoppedHashAny(st) == TRUE

\* Line 82: if (hash), where pop() of an empty array is undefined.
PoppedHash(st) == st.data # <<>>

removeItem(st) ==
    IF ~PoppedHash(st)
    THEN [st |-> st, sent |-> <<Console("log"), Console("error")>>,
          ret |-> "empty"]
    ELSE LET hash == IF st.data = <<>> THEN Undefined
                     ELSE st.data[Len(st.data)]
             popped == SubSeq(st.data, 1, Len(st.data) - 1)
         IN  IF hash \notin DOMAIN st.dataSet
             THEN \* item is undefined and item.pen throws at line 86
                  [st |-> [st EXCEPT !.data = popped],
                   sent |-> <<Console("log")>>,
                   ret |-> "TypeError"]
             ELSE LET item == st.dataSet[hash]
                      copy == Extend(st.heap, PenToConfirm(item, st))
                  IN  [st |-> [st EXCEPT
                                  !.heap = copy.heap,
                                  !.actualPen = copy.ref,
                                  !.data = popped,
                                  !.dataSet =
                                      [k \in DOMAIN st.dataSet \ {hash} |->
                                          st.dataSet[k]]],
                       sent |-> <<Console("log"),
                                  Io("sendPenUpdate", Undefined)>>
                                \o trigger(item)
                                \o <<Io("sendBufferRemove", Undefined)>>,
                       ret |-> "removed"]

-----------------------------------------------------------------------------
(* cncserver.buffer.clear *)

\* The first definition, lines 24-32, which the second one replaces.
clearFirstDefinition(st) ==
    LET copy == Extend(st.heap, st.actualPen)
    IN  [st |-> [st EXCEPT !.heap = copy.heap, !.pen = copy.ref,
                           !.data = <<>>],
         sent |-> <<Io("sendBufferVars", Undefined)>>]

\* The intended pen state reset to the confirmed object itself, not a copy.
clearAlias(st) ==
    [st |-> [st EXCEPT !.pen = st.actualPen,
                       !.data = <<>>, !.dataSet = EmptyMap],
     sent |-> <<IpcMessage("buffer.clear", Undefined),
                Io("sendBufferComplete", Undefined)>>]

\* clear() completing the oldest stored item's side effect on its way out.
clearTriggering(st) ==
    LET copy == Extend(st.heap, st.actualPen)
        oldest == st.data[Len(st.data)]
    IN  [st |-> [st EXCEPT !.heap = copy.heap, !.pen = copy.ref,
                           !.data = <<>>, !.dataSet = EmptyMap],
         sent |-> (IF st.data # <<>> /\ oldest \in DOMAIN st.dataSet
                   THEN trigger(st.dataSet[oldest]) ELSE <<>>)
                  \o <<IpcMessage("buffer.clear", Undefined),
                       Io("sendBufferComplete", Undefined)>>]

\* The definition in force, lines 106-118.
clear(st) ==
    LET copy == Extend(st.heap, st.actualPen)
    IN  [st |-> [st EXCEPT !.heap = copy.heap, !.pen = copy.ref,
                           !.data = <<>>, !.dataSet = EmptyMap],
         sent |-> <<IpcMessage("buffer.clear", Undefined),
                    Io("sendBufferComplete", Undefined)>>]

-----------------------------------------------------------------------------
(* cncserver.buffer.pause, resume, toggle, lines 36-56 *)

\* pause() flipping the flag.
pauseFlip ==
    [paused |-> ~paused,
     sent |-> <<IpcMessage("buffer.pause", Undefined),
                Io("sendBufferVars", Undefined)>>]

pause ==
    [paused |-> TRUE,
     sent |-> <<IpcMessage("buffer.pause", Undefined),
                Io("sendBufferVars", Undefined)>>]

resume ==
    [paused |-> FALSE,
     sent |-> <<IpcMessage("buffer.resume", Undefined),
                Io("sendBufferVars", Undefined)>>]

toggle(setPause) ==
    IF setPause /\ ~paused THEN pause
    ELSE IF ~setPause /\ paused THEN resume
    ELSE [paused |-> paused, sent |-> <<>>]

-----------------------------------------------------------------------------
(* The state machine *)

NoArg == Undefined

\* A call as last records it.  ret is what the call returned; for removeItem,
\* which returns nothing, it tells the three ways the call can end: "removed",
\* "empty" (the else branch) and "TypeError" (the throw at line 86).
Called(op, arg, ret) == [op |-> op, arg |-> arg, ret |-> ret]

\* The state after the module is loaded (lines 11-19), with the two pen
\* states equal, under a given device profile.
Loaded(profile) ==
    /\ data = <<>>
    /\ dataSet = EmptyMap
    /\ running = FALSE
    /\ paused = FALSE
    /\ pen = 1
    /\ actualPen = 2
    /\ heap = [r \in {1, 2} |-> InitialPen]
    /\ bot = profile
    /\ last = Called("load", NoArg, "undefined")
    /\ sent = <<>>
    /\ enqueued = <<>>
    /\ stale = FALSE

\* A device that declares every template.
Init == Loaded(FullProfile)

\* A device that declares no template.
InitGap == Loaded(EmptyProfile)

Commit(st) ==
    LET c == Collect(st)
    IN  /\ heap' = c.heap
        /\ pen' = c.pen
        /\ actualPen' = c.actualPen
        /\ data' = c.data
        /\ dataSet' = c.dataSet

\* cncserver.run(command, data, duration)
Run(command, duration) ==
    /\ Len(data) < MaxQueue
    /\ LET r == run(command, DataOf(command), duration, Store)
       IN  /\ Commit(r.st)
           /\ sent' = r.sent
           /\ last' = Called("run", [command |-> command, duration |-> duration],
                             r.ret)
           /\ enqueued' = IF r.ret = "true" THEN Append(enqueued, r.item)
                          ELSE enqueued
    /\ UNCHANGED <<running, paused, bot, stale>>

\* cncserver.buffer.removeItem(), on the executor's completion report
RemoveItem ==
    /\ LET r == removeItem(Store)
       IN  /\ Commit(r.st)
           /\ sent' = r.sent
           /\ last' = Called("removeItem", NoArg, r.ret)
    /\ enqueued' = IF enqueued = <<>> THEN enqueued ELSE Tail(enqueued)
    /\ UNCHANGED <<running, paused, bot, stale>>

\* cncserver.buffer.clear()
Clear ==
    /\ LET r == clear(Store)
       IN  /\ Commit(r.st)
           /\ sent' = r.sent
    /\ last' = Called("clear",
                      [queued |-> Len(data),
                       ahead |-> heap[pen] # heap[actualPen],
                       hooks |-> \E k \in DOMAIN dataSet :
                                    TypeOf(dataSet[k].command) = "function"],
                      "undefined")
    /\ enqueued' = <<>>
    /\ UNCHANGED <<running, paused, bot, stale>>

\* cncserver.buffer.pause()
Pause ==
    /\ paused' = pause.paused
    /\ sent' = pause.sent
    /\ last' = Called("pause", [paused |-> paused], "undefined")
    /\ UNCHANGED <<data, dataSet, running, pen, actualPen, heap, bot, enqueued,
                   stale>>

\* cncserver.buffer.resume()
Resume ==
    /\ paused' = resume.paused
    /\ sent' = resume.sent
    /\ last' = Called("resume", [paused |-> paused], "undefined")
    /\ UNCHANGED <<data, dataSet, running, pen, actualPen, heap, bot, enqueued,
                   stale>>

\* cncserver.buffer.toggle(setPause)
Toggle(setPause) ==
    /\ paused' = toggle(setPause).paused
    /\ sent' = toggle(setPause).sent
    /\ last' = Called("toggle", [paused |-> paused], "undefined")
    /\ UNCHANGED <<data, dataSet, running, pen, actualPen, heap, bot, enqueued,
                   stale>>

\* The callers of run advance the intended pen state in place.
SetPen(value) ==
    /\ value # heap[pen]
    /\ heap' = [heap EXCEPT ![pen] = value]
    /\ last' = Called("setPen", NoArg, "undefined")
    /\ sent' = <<>>
    /\ UNCHANGED <<data, dataSet, running, paused, pen, actualPen, bot, enqueued,
                   stale>>

Next ==
    \/ \E request \in Requests : Run(request.command, request.duration)
    \/ RemoveItem
    \/ Clear
    \/ Pause
    \/ Resume
    \/ \E setPause \in BOOLEAN : Toggle(setPause)
    \/ \E value \in PenValues : SetPen(value)

Spec == Init /\ [][Next]_vars

SpecGap == InitGap /\ [][Next]_vars

\* What removeItem is called with when the report that drives it is stale.
StaleReportArg == [report |-> "stale"]

\* cncserver.buffer.clear() called after the executor has sent the completion
\* report of the oldest item and before that report has arrived.
ClearRacing ==
    /\ data # <<>>
    /\ ~stale
    /\ LET r == clear(Store)
       IN  /\ Commit(r.st)
           /\ sent' = r.sent
    /\ last' = Called("clear",
                      [queued |-> Len(data),
                       ahead |-> heap[pen] # heap[actualPen],
                       hooks |-> \E k \in DOMAIN dataSet :
                                    TypeOf(dataSet[k].command) = "function"],
                      "undefined")
    /\ enqueued' = <<>>
    /\ stale' = TRUE
    /\ UNCHANGED <<running, paused, bot>>

\* cncserver.buffer.removeItem() called on the arrival of that report.
StaleReport ==
    /\ stale
    /\ LET r == removeItem(Store)
       IN  /\ Commit(r.st)
           /\ sent' = r.sent
           /\ last' = Called("removeItem", StaleReportArg, r.ret)
    /\ enqueued' = IF enqueued = <<>> THEN enqueued ELSE Tail(enqueued)
    /\ stale' = FALSE
    /\ UNCHANGED <<running, paused, bot>>

NextStale ==
    \/ Next
    \/ ClearRacing
    \/ StaleReport

\* The buffer with an executor whose reports can cross a clear().
SpecStale == Init /\ [][NextStale]_vars

-----------------------------------------------------------------------------
(* Properties *)

\* Everything but what the last call is recorded as.
state == <<data, dataSet, running, paused, pen, actualPen, heap, bot, enqueued>>

Newest == data[1]
IsRun(call) == call.op = "run"
Enqueued(call) == call.op = "run" /\ call.ret = "true"
Dequeued(call) == call.op = "removeItem" /\ call.ret = "removed"
Negative(x) == TypeOf(x) = "number" /\ x.neg /\ ~Falsy(x)

\* C1: FIFO ordering.  Every removeItem called while items are pending ends
\* by removing an entry of the id map, and the entry it removes has the
\* content of the oldest pending enqueue.
C1_FifoOrder ==
    [][ (last'.op = "removeItem" /\ enqueued # <<>>) =>
            /\ last'.ret = "removed"
            /\ \E k \in DOMAIN dataSet \ DOMAIN dataSet' :
                   ItemContent(dataSet[k], heap) = Head(enqueued) ]_vars

\* C2: confirmed-state correctness.  A removeItem that removes item X leaves
\* actualPen equal to the pen state X was enqueued with, whatever was
\* enqueued and whatever the intended pen state became since.
C2_ConfirmedIsSnapshot ==
    [][ Dequeued(last') => heap'[actualPen'] = Head(enqueued).pen ]_vars

\* C2 witness: an item was removed while the intended pen state differs from
\* its snapshot and a later item is still queued.
C2_Witness ==
    /\ Dequeued(last)
    /\ heap[pen] # heap[actualPen]
    /\ data # <<>>

\* C3: snapshot immutability.  No step changes the pen snapshot of an item
\* that is in the store before and after it.
C3_SnapshotImmutable ==
    [][ \A k \in DOMAIN dataSet \cap DOMAIN dataSet' :
            heap'[dataSet'[k].pen] = heap[dataSet[k].pen] ]_vars

\* C3 witness: the intended pen state was changed in place while an item with
\* another snapshot is stored.
C3_Witness ==
    /\ last.op = "setPen"
    /\ \E k \in DOMAIN dataSet : heap[dataSet[k].pen] # heap[pen]

\* C4: after clear() the order array and the id map are both empty and the
\* intended pen state equals the confirmed one.
C4_ClearResets ==
    last.op = "clear" =>
        /\ data = <<>>
        /\ DOMAIN dataSet = {}
        /\ heap[pen] = heap[actualPen]

\* C4 witness: clear() was called while paused, with items stored and the
\* intended pen state ahead of the confirmed one.
C4_Witness ==
    /\ last.op = "clear"
    /\ last.arg.queued > 0
    /\ last.arg.ahead
    /\ paused

C6_PauseNoOp ==
    [][ ((last'.op = "pause" /\ paused) \/ (last'.op = "resume" /\ ~paused))
            => (UNCHANGED state /\ sent' = <<>>) ]_vars

\* C6 as amended: pause() while paused, and resume() while not paused, change
\* no flag, no store and no pen state, and send the executor and the
\* observer the same two notifications as a first call does.
C6_PauseIdempotent ==
    [][ /\ (last'.op = "pause" /\ paused) =>
               /\ UNCHANGED state
               /\ sent' = <<IpcMessage("buffer.pause", Undefined),
                            Io("sendBufferVars", Undefined)>>
        /\ (last'.op = "resume" /\ ~paused) =>
               /\ UNCHANGED state
               /\ sent' = <<IpcMessage("buffer.resume", Undefined),
                            Io("sendBufferVars", Undefined)>> ]_vars

\* C6 witness: pause() was called while the buffer was paused.
C6_Witness ==
    /\ last.op = "pause"
    /\ last.arg.paused
    /\ paused

\* C7: store consistency.  The ids of buffer.data are pairwise distinct and
\* are exactly the keys of buffer.dataSet.
C7_StoreConsistent ==
    /\ \A i, j \in 1..Len(data) : data[i] = data[j] => i = j
    /\ {data[i] : i \in 1..Len(data)} = DOMAIN dataSet

\* C8: duplicate id policy.  A successful enqueue stores its item under an id
\* that no stored item had, and leaves every entry of the id map as it was.
C8_NoOverwrite ==
    [][ Enqueued(last') =>
            /\ Newest' \notin DOMAIN dataSet
            /\ \A k \in DOMAIN dataSet :
                   /\ k \in DOMAIN dataSet'
                   /\ ItemContent(dataSet'[k], heap') =
                          ItemContent(dataSet[k], heap) ]_vars

\* C9: run with a command kind outside the supported set returns false,
\* changes nothing and sends nothing.
C9_MalformedRejected ==
    [][ (IsRun(last') /\ last'.arg.command \notin Supported) =>
            /\ last'.ret = "false"
            /\ UNCHANGED state
            /\ sent' = <<>> ]_vars

\* C9 witness: run was called with an unsupported command kind while an item
\* is stored and the buffer is paused.
C9_Witness ==
    /\ IsRun(last)
    /\ last.arg.command \notin Supported
    /\ data # <<>>
    /\ paused

\* The templates buffer.run and buffer.render look up for a command kind.
Needs(command) ==
    CASE command = "move" -> {"movexy"}
      [] command = "height" -> {"movez", "wait"}
      [] command = "wait" -> {"wait"}
      [] OTHER -> {}

Lacking(command) == Needs(command) \ DOMAIN bot.commands

\* C10 as claimed: an enqueue of a supported kind succeeds when the profile
\* lacks a template the kind needs.
C10_GapSucceeds ==
    (IsRun(last) /\ last.arg.command \in Supported
        /\ Lacking(last.arg.command) # {}) => last.ret = "true"

\* C10 as amended: with a template missing, move and height still succeed,
\* are stored and sent to the executor with an empty string for each missing
\* template; wait returns false, stores and sends nothing; the other kinds
\* need no template and succeed.
C10_GapAmended ==
    [][ (IsRun(last') /\ last'.arg.command \in Supported) =>
            IF last'.arg.command = "wait" /\ Lacking("wait") # {}
            THEN /\ last'.ret = "false"
                 /\ UNCHANGED state
                 /\ sent' = <<>>
            ELSE /\ last'.ret = "true"
                 /\ Len(data') = Len(data) + 1
                 /\ Newest' \in DOMAIN dataSet'
                 /\ sent'[1].type = "buffer.add"
                 /\ sent'[1].body.hash = Newest'
                 /\ LET commands == sent'[1].body.commands.v
                    IN  /\ (last'.arg.command = "move"
                               /\ "movexy" \notin DOMAIN bot.commands)
                             => commands = <<Str(<<>>)>>
                        /\ (last'.arg.command = "height"
                               /\ "movez" \notin DOMAIN bot.commands)
                             => commands[1] = Str(<<>>)
                        /\ (last'.arg.command = "height"
                               /\ "wait" \notin DOMAIN bot.commands)
                             => commands[Len(commands)] = Str(<<>>) ]_vars

\* C10 witness: a height command was enqueued under a profile that has
\* neither the movez nor the wait template.
C10_Witness ==
    /\ Enqueued(last)
    /\ last.arg.command = "height"
    /\ Lacking("height") = {"movez", "wait"}
    /\ Newest \in DOMAIN dataSet

\* C11: removeItem on an empty store logs its two diagnostics and does nothing
\* else: the store stays empty, no flag and no pen state changes, no hook is
\* called and the observer gets no pen update and no removal notification.
C11_EmptyDequeue ==
    [][ (last'.op = "removeItem" /\ data = <<>>) =>
            /\ last'.ret = "empty"
            /\ UNCHANGED state
            /\ data' = <<>> /\ DOMAIN dataSet' = {}
            /\ sent' = <<Console("log"), Console("error")>> ]_vars

\* C11 witness: removeItem was called on an empty store while the intended
\* pen state is ahead of the confirmed one.
C11_Witness ==
    /\ last.op = "removeItem"
    /\ last.ret = "empty"
    /\ data = <<>>
    /\ heap[pen] # heap[actualPen]

\* The add notifications to the executor among what a call sent.
AddsSent(events) ==
    SelectSeq(events, LAMBDA e : e.to = "ipc" /\ e.type = "buffer.add")

\* C12 as claimed: an enqueue made while the buffer is paused is stored and
\* sends the executor no add notification.
C12_PausedHoldsBack ==
    (IsRun(last) /\ paused /\ last.arg.command \in Supported
        /\ Lacking(last.arg.command) = {}) =>
        /\ last.ret = "true"
        /\ Newest \in DOMAIN dataSet
        /\ AddsSent(sent) = <<>>

\* C12 as amended: an enqueue made while the buffer is paused is stored and
\* sends the executor its add notification, with the rendered commands, as
\* an enqueue made while not paused does; the executor is told of the pause
\* by buffer.pause only.
C12_PausedStillForwards ==
    (IsRun(last) /\ paused /\ last.arg.command \in Supported
        /\ ~(last.arg.command = "wait" /\ Lacking("wait") # {})) =>
        /\ last.ret = "true"
        /\ Newest \in DOMAIN dataSet
        /\ AddsSent(sent) =
               <<IpcMessage("buffer.add",
                            [hash |-> Newest,
                             commands |-> render(dataSet[Newest]),
                             duration |-> dataSet[Newest].duration])>>

\* C12 witness: a move was enqueued while the buffer was paused and already
\* held an item.
C12_Witness ==
    /\ Enqueued(last)
    /\ paused
    /\ last.arg.command = "move"
    /\ Len(data) = 2

\* C13 as claimed: a successful run of a move to (x, y) leaves the intended
\* pen position at (x, y), and the item's snapshot holds that position.
C13_EnqueueAdvances ==
    (Enqueued(last) /\ last.arg.command = "move") =>
        LET dest == DataOf("move").v
        IN  /\ heap[pen].x = dest.x /\ heap[pen].y = dest.y
            /\ heap[dataSet[Newest].pen].x = dest.x
            /\ heap[dataSet[Newest].pen].y = dest.y

\* C13 as amended: run never changes the intended pen state, whatever the
\* command kind and whether it succeeds, and the snapshot of the item it
\* stores is the intended pen state as it was when run was called.
C13_EnqueueSnapshotsOnly ==
    [][ IsRun(last') =>
            /\ heap'[pen'] = heap[pen]
            /\ Enqueued(last') =>
                   heap'[dataSet'[Newest'].pen] = heap[pen] ]_vars

\* C13 witness: a move to (10, 20) was enqueued after its caller had set the
\* intended position to (10, 20), the confirmed position being (0, 0); the
\* snapshot holds (10, 20).
C13_Witness ==
    /\ Enqueued(last)
    /\ last.arg.command = "move"
    /\ heap[pen].x = 10 /\ heap[pen].y = 20
    /\ heap[actualPen].x = 0 /\ heap[actualPen].y = 0
    /\ heap[dataSet[Newest].pen].x = 10

\* C14: run-state flag.  buffer.running is true exactly when buffer.data is
\* not empty and buffer.paused is false.
C14_RunningFlag ==
    running <=> (data # <<>> /\ ~paused)

\* C15: stale completion report.  A removeItem driven by the report of an
\* item that clear() has removed, arriving while other items are stored,
\* reports an error, removes no stored item and leaves the confirmed pen
\* state as it was.
C15_StaleReportRejected ==
    [][ (last'.op = "removeItem" /\ last'.arg = StaleReportArg
            /\ data # <<>>) =>
            /\ last'.ret # "removed"
            /\ \E i \in 1..Len(sent') : sent'[i] = Console("error")
            /\ data' = data
            /\ DOMAIN dataSet' = DOMAIN dataSet
            /\ heap'[actualPen'] = heap[actualPen] ]_vars

\* C16: desynchronised removal.  A removeItem whose popped id is in
\* buffer.data and has no entry in buffer.dataSet does not throw: it reports
\* an error, leaves the confirmed pen state as it was and triggers nothing.
C16_DesyncReported ==
    [][ (last'.op = "removeItem" /\ data # <<>>
            /\ data[Len(data)] \notin DOMAIN dataSet) =>
            /\ last'.ret # "TypeError"
            /\ \E i \in 1..Len(sent') : sent'[i] = Console("error")
            /\ heap'[actualPen'] = heap[actualPen]
            /\ \A i \in 1..Len(sent') :
                   /\ sent'[i].to # "call"
                   /\ sent'[i].type \notin {"sendMessageUpdate",
                                            "sendCallbackUpdate"} ]_vars

\* C17: confirmed state frame.  Every step other than a removeItem that
\* removes an item leaves the confirmed pen state as it was: run, successful
\* or not, pause, resume, toggle, clear, removeItem on an empty store, and a
\* caller's write to the intended pen state.
C17_ConfirmedFrame ==
    [][ ~Dequeued(last') => heap'[actualPen'] = heap[actualPen] ]_vars

\* C17 witness: run was refused after an earlier removal had set the
\* confirmed pen state and a caller had moved the intended one away from it.
C17_Witness ==
    /\ IsRun(last)
    /\ last.ret = "false"
    /\ heap[actualPen] # InitialPen
    /\ heap[pen] # heap[actualPen]

\* The function calls among what a call sent.
CallsMade(events) == SelectSeq(events, LAMBDA e : e.to = "call")

\* C18: completion hook.  A removeItem called while the oldest pending
\* enqueue is a callback item calls that item's function exactly once, with
\* 1; every other step calls no function.
C18_HookOnceAtDequeue ==
    [][ IF /\ last'.op = "removeItem"
           /\ enqueued # <<>>
           /\ TypeOf(Head(enqueued).command) = "function"
        THEN CallsMade(sent') = <<Call(Head(enqueued).command.v, 1)>>
        ELSE CallsMade(sent') = <<>> ]_vars

\* C19: enqueue notifications.  A successful run sends exactly two things, in
\* this order: to the executor one buffer.add with the id the item is stored
\* under, the item's rendered commands and its stored duration, then to the
\* observer sendBufferAdd with the item and the same id; that id is put at
\* the front of buffer.data.  No other step sends a buffer.add, and the ids
\* of buffer.data, oldest first, are those of the pending enqueues in the
\* order they were made.
C19_AddNotified ==
    [][ /\ Enqueued(last') =>
               /\ sent' = <<IpcMessage("buffer.add",
                                       [hash |-> Newest',
                                        commands |-> render(dataSet'[Newest']),
                                        duration |-> dataSet'[Newest'].duration]),
                            Io("sendBufferAdd",
                               [item |-> ItemContent(dataSet'[Newest'], heap'),
                                hash |-> Newest'])>>
               /\ data' = <<Newest'>> \o data
        /\ ~Enqueued(last') => AddsSent(sent') = <<>>
        /\ Len(data') = Len(enqueued')
        /\ \A i \in 1..Len(data') :
               data'[Len(data') + 1 - i] = enqueued'[i] ]_vars

\* C19 witness: a height command was enqueued behind an item with another
\* id, and the executor was sent the id it is stored under.
C19_Witness ==
    /\ Enqueued(last)
    /\ last.arg.command = "height"
    /\ Len(data) = 2
    /\ data[1] # data[2]
    /\ sent[1] = IpcMessage("buffer.add",
                            [hash |-> data[1],
                             commands |-> render(dataSet[data[1]]),
                             duration |-> 1])

\* C20: clear drops pending completion hooks.  clear() calls no function and
\* leaves no item stored or pending, and a step that calls a function is a
\* removeItem calling, once, the function of the oldest callback item
\* enqueued since the last clear(): the function of an item that clear()
\* removed is called by no step.
C20_ClearDropsHooks ==
    [][ /\ last'.op = "clear" =>
               /\ CallsMade(sent') = <<>>
               /\ data' = <<>>
               /\ DOMAIN dataSet' = {}
               /\ enqueued' = <<>>
        /\ CallsMade(sent') # <<>> =>
               /\ last'.op = "removeItem"
               /\ enqueued # <<>>
               /\ TypeOf(Head(enqueued).command) = "function"
               /\ \E k \in DOMAIN dataSet \ DOMAIN dataSet' :
                      ItemContent(dataSet[k], heap) = Head(enqueued)
               /\ CallsMade(sent') =
                      <<Call(Head(enqueued).command.v, 1)>> ]_vars

\* C20 witness: clear() was called on a store that held two items, a
\* callback item among them.
C20_Witness ==
    /\ last.op = "clear"
    /\ last.arg.hooks
    /\ last.arg.queued = 2
    /\ data = <<>>

====
